---------------------------- MODULE Spec2Model ----------------------------
(***************************************************************************)
(* Fused cross-entropy loss of unsloth/kernels/cross_entropy_loss.py:      *)
(* the single-pass and the chunked forward kernels, the chunk reducer,     *)
(* the in-place backward kernel, and the orchestrator                      *)
(* (Fast_CrossEntropyLoss.forward / .backward, fast_cross_entropy_loss).   *)
(*                                                                         *)
(* Arithmetic.  The kernels work on IEEE floats.  The model works in exact *)
(* arithmetic over the rationals, extended by the IEEE specials the code   *)
(* itself produces (the masked load pads with -inf, line 69/147/222):      *)
(* a number is a pair <<n, d>>; d > 0 is the rational n/d in lowest terms; *)
(* d = 0 is a special: <<-1,0>> = -inf, <<1,0>> = +inf, <<0,0>> = NaN,     *)
(* <<2,0>> = a finite real the model does not track (2^q for a non-integer *)
(* q, or a magnitude beyond TrackMax), <<3,0>> = uninitialised memory      *)
(* (torch.empty).  exp and log are taken to base 2, so that integer logits *)
(* have rational exponentials; the algebra of the kernels                  *)
(* (c + log(sum(exp(x - c)))) is the same in any base.  A value that lives *)
(* in the log domain (a log-sum-exp, a loss) is stored as the record       *)
(* [lg |-> E], which denotes the real number log2(E).                      *)
(***************************************************************************)
EXTENDS Integers, Sequences, FiniteSets, TLC

\* ------------------------------------------------------------- bounds
MaxRows     == 2      \* rows of the flattened batch
MaxVocab    == 5      \* vocabulary width
MaxBackward == 2      \* backward calls on one forward state
TrackMax    == 32768  \* numerators and denominators tracked exactly
ExpTrackMax == 10     \* |k| up to which 2^k is tracked exactly

\* ---------------------------------------------------- program constants
\* MAX_FUSED_SIZE = 65536 = 2**16 in the source (line 260); the model keeps it
\* a power of two and scales it to 2**2 so that a row can be enumerated.
MAX_FUSED_SIZE == 4
\* BLOCK_SIZE = 4096 = 2**12 in backward (line 330), scaled to 2**1.
BACKWARD_BLOCK_SIZE == 2
\* The ignore sentinel the kernels compare the label with (lines 80, 161, 217).
IGNORE_INDEX == -100

\* ---------------------------------------------------------- arithmetic
Abs(a) == IF a < 0 THEN -a ELSE a

RECURSIVE Gcd(_, _)
Gcd(a, b) == IF b = 0 THEN a ELSE Gcd(b, a % b)

NaN    == <<0, 0>>
PosInf == <<1, 0>>
NegInf == <<-1, 0>>
Unk    == <<2, 0>>
Empty  == <<3, 0>>

IsRat(a) == a[2] # 0
IsInf(a) == a = PosInf \/ a = NegInf

\* n/d in lowest terms with a positive denominator (d # 0).
Rat(n, d) ==
    LET g == Gcd(Abs(n), Abs(d))
        s == IF d < 0 THEN -1 ELSE 1
        nn == (s * n) \div g
        dd == (s * d) \div g
    IN  IF Abs(nn) > TrackMax \/ dd > TrackMax THEN Unk ELSE <<nn, dd>>

IntNum(k) == <<k, 1>>
Zero   == <<0, 1>>
One    == <<1, 1>>

Sign(a) == IF a[1] < 0 THEN -1 ELSE IF a[1] > 0 THEN 1 ELSE 0

FNeg(a) ==
    IF IsRat(a) THEN <<-a[1], a[2]>>
    ELSE IF a = PosInf THEN NegInf
    ELSE IF a = NegInf THEN PosInf
    ELSE a

FAdd(a, b) ==
    IF a = Empty \/ b = Empty THEN Empty
    ELSE IF a = NaN \/ b = NaN THEN NaN
    ELSE IF IsInf(a) /\ IsInf(b) THEN (IF a = b THEN a ELSE NaN)
    ELSE IF IsInf(a) THEN a
    ELSE IF IsInf(b) THEN b
    ELSE IF a = Unk \/ b = Unk THEN Unk
    ELSE Rat(a[1] * b[2] + b[1] * a[2], a[2] * b[2])

FSub(a, b) == FAdd(a, FNeg(b))

FMul(a, b) ==
    IF a = Empty \/ b = Empty THEN Empty
    ELSE IF a = NaN \/ b = NaN THEN NaN
    ELSE IF IsInf(a) \/ IsInf(b) THEN
        (IF a = Zero \/ b = Zero \/ a = Unk \/ b = Unk THEN NaN
         ELSE IF Sign(a) * Sign(b) > 0 THEN PosInf ELSE NegInf)
    ELSE IF a = Zero \/ b = Zero THEN Zero
    ELSE IF a = Unk \/ b = Unk THEN Unk
    ELSE Rat(a[1] * b[1], a[2] * b[2])

FInv(a) ==
    IF a = Empty \/ a = NaN \/ a = Unk THEN a
    ELSE IF IsInf(a) THEN Zero
    ELSE IF a = Zero THEN PosInf
    ELSE Rat(a[2], a[1])

FDiv(a, b) == FMul(a, FInv(b))

\* a < b on numbers that are rational or infinite.
FLess(a, b) ==
    IF a = b THEN FALSE
    ELSE IF a = NegInf \/ b = PosInf THEN TRUE
    ELSE IF a = PosInf \/ b = NegInf THEN FALSE
    ELSE a[1] * b[2] < b[1] * a[2]

\* The larger of two numbers; NaN, an untracked and an uninitialised value
\* propagate.
FMax(a, b) ==
    IF a = Empty \/ b = Empty THEN Empty
    ELSE IF a = NaN \/ b = NaN THEN NaN
    ELSE IF a = Unk \/ b = Unk THEN Unk
    ELSE IF FLess(a, b) THEN b ELSE a

RECURSIVE Pow2(_)
Pow2(k) == IF k = 0 THEN 1 ELSE 2 * Pow2(k - 1)

\* tl.exp, to base 2.
Exp2(a) ==
    IF a = Empty \/ a = NaN \/ a = Unk THEN a
    ELSE IF a = PosInf THEN PosInf
    ELSE IF a = NegInf THEN Zero
    ELSE IF a[2] # 1 \/ Abs(a[1]) > ExpTrackMax THEN Unk
    ELSE IF a[1] >= 0 THEN <<Pow2(a[1]), 1>>
    ELSE <<1, Pow2(-a[1])>>

\* tl.log, to base 2: the log-domain value log2(s).
Log2(s) == [lg |-> s]
\* c + v for a number c and a log-domain value v.
LgShift(c, v) == [lg |-> FMul(Exp2(c), v.lg)]
\* v - x for a log-domain value v and a number x.
LgMinus(v, x) == [lg |-> FDiv(v.lg, Exp2(x))]
\* -1.0 * x as a log-domain value.
LgNeg(x) == [lg |-> FInv(Exp2(x))]
\* v + w for two log-domain values.
LgAdd(v, w) == [lg |-> FMul(v.lg, w.lg)]
\* exp(x - v) for a number x and a log-domain value v.
ExpMinus(x, v) == FDiv(Exp2(x), v.lg)
\* The log-domain value 0.0.
LgZero == [lg |-> One]
LgEmpty == [lg |-> Empty]

\* triton_tanh (imported from .utils): an odd, monotone function
\* with values in [-1, 1] and tanh(+-inf) = +-1; the model takes the
\* piecewise-linear one, which keeps t * tanh(x / t) rational.
triton_tanh(z) ==
    IF z = Empty \/ z = NaN THEN z
    ELSE IF z = Unk THEN Unk
    ELSE IF z = PosInf THEN One
    ELSE IF z = NegInf THEN IntNum(-1)
    ELSE IF FLess(One, z) THEN One
    ELSE IF FLess(z, IntNum(-1)) THEN IntNum(-1)
    ELSE z


\* ------------------------------------------------------------ the state
VARIABLES
    args,         \* the call's arguments: shapes, vocab_size, softcap, scale, ...
    labels,       \* the labels tensor, followed by the memory that lies after it
    logits,       \* the logits buffer, logits[row][col]; backward overwrites it
    losses,       \* losses[row], torch.empty at forward
    chunk_lse,    \* the (n_rows, n_chunks) log-sum-exp slots of the chunked path
    logsumexp,    \* the row-level log-sum-exp, saved for backward
    ctx,          \* what forward saved for backward
    pc,           \* where the orchestrator stands
    result,       \* what the call returned
    pending,      \* the work units of the launch in flight that have not run
    n_backward    \* backward calls made on this forward state

vars == <<args, labels, logits, losses, chunk_lse, logsumexp, ctx, pc, result,
          pending, n_backward>>

\* ------------------------------------------------------------- inputs
\* The logit values a row is made of.
Pattern == <<2, -1, 0>>
LogitAt(seed, r, j) == IntNum(Pattern[((seed + r + j) % 3) + 1])
\* The label of row r when it is not ignored.
LabelAt(seed, r, v) == (seed + r) % v
ScaleVals   == {0, 2, -1}
SoftcapVals == {0, 2, -2}
DLossVals   == {1, 2}

NRows   == args.logits_shape[2]
NLabels == args.labels_shape[2]
Rows    == 0 .. (NRows - 1)
Cols    == 0 .. (args.vocab_size - 1)
\* The logits the caller passed, before any backward.
OrigLogits == [r \in Rows |-> [j \in Cols |-> LogitAt(args.seed, r, j)]]

\* ------------------------------------------------------------ kernels
\* The memory a kernel sees.
Mem == [logits |-> logits, losses |-> losses, chunks |-> chunk_lse,
        lse |-> logsumexp, labels |-> labels]

Loc(kind, r, c) == <<kind, r, c>>
St(kind, r, c, val) == [loc |-> Loc(kind, r, c), val |-> val]

\* Lines 65-66, 143-144, 213-214: the columns of block block_idx that the
\* mask col_offsets < VOCAB_SIZE lets through.
UnmaskedCols(k, block_idx) ==
    {c \in {block_idx * k.BLOCK_SIZE + i : i \in 0 .. (k.BLOCK_SIZE - 1)} :
        c < k.VOCAB_SIZE}

\* tl.load of one logits lane under mask, other = -inf (lines 69, 147, 222).
MaskedLoad(m, k, row, col) ==
    IF col < k.VOCAB_SIZE THEN m.logits[row][col] ELSE NegInf

\* Lines 72-74: the transform of the row's logits in _cross_entropy_forward.
CEF_TransformLogits(x, k) ==
    LET x1 == IF k.DO_LOGIT_SCALING THEN FMul(k.LOGIT_SCALE, x) ELSE x
    IN  IF k.DO_SOFTCAPPING
        THEN FMul(k.SOFTCAP, triton_tanh(FDiv(x1, k.SOFTCAP))) ELSE x1

\* The label logit softcapped before it is scaled.
CEF_TransformLabelSoftcapFirst(x, k) ==
    LET x1 == IF k.DO_SOFTCAPPING
              THEN FMul(k.SOFTCAP, triton_tanh(FDiv(x, k.SOFTCAP))) ELSE x
    IN  IF k.DO_LOGIT_SCALING THEN FMul(k.LOGIT_SCALE, x1) ELSE x1

\* Lines 83-85: the transform of the re-loaded label logit.
CEF_TransformLabel(x, k) ==
    LET x1 == IF k.DO_LOGIT_SCALING THEN FMul(k.LOGIT_SCALE, x) ELSE x
    IN  IF k.DO_SOFTCAPPING
        THEN FMul(k.SOFTCAP, triton_tanh(FDiv(x1, k.SOFTCAP))) ELSE x1

\* Lines 150-152: the transform of the chunk's logits.
CCEF_TransformLogits(x, k) ==
    LET x1 == IF k.DO_LOGIT_SCALING THEN FMul(k.LOGIT_SCALE, x) ELSE x
    IN  IF k.DO_SOFTCAPPING
        THEN FMul(k.SOFTCAP, triton_tanh(FDiv(x1, k.SOFTCAP))) ELSE x1

\* Lines 164-166: the transform of the label logit in chunk 0.
CCEF_TransformLabel(x, k) ==
    LET x1 == IF k.DO_LOGIT_SCALING THEN FMul(k.LOGIT_SCALE, x) ELSE x
    IN  IF k.DO_SOFTCAPPING
        THEN FMul(k.SOFTCAP, triton_tanh(FDiv(x1, k.SOFTCAP))) ELSE x1

\* tl.max(logits, 0) over the lanes 0 .. n-1 of a block.
RECURSIVE BlockMax(_, _)
BlockMax(lane, n) ==
    IF n = 1 THEN lane[0] ELSE FMax(BlockMax(lane, n - 1), lane[n - 1])

\* tl.sum(tl.exp(logits - c), 0) over the lanes 0 .. n-1 of a block.
RECURSIVE BlockSumExp(_, _, _)
BlockSumExp(lane, c, n) ==
    IF n = 0 THEN Zero
    ELSE FAdd(BlockSumExp(lane, c, n - 1), Exp2(FSub(lane[n - 1], c)))

\* Lines 77-78, 155-156: c + log(sum(exp(logits - c))).
StableLogSumExp(lane, n) ==
    LET c == BlockMax(lane, n)
    IN  LgShift(c, Log2(BlockSumExp(lane, c, n)))

\* _cross_entropy_forward, the work unit of row_idx (lines 59-90): what it
\* loads and what it stores.
CrossEntropyForward(m, k, row_idx) ==
    LET label_idx == m.labels[row_idx]
        lane == [i \in 0 .. (k.BLOCK_SIZE - 1) |->
                    CEF_TransformLogits(MaskedLoad(m, k, row_idx, i), k)]
        lse  == StableLogSumExp(lane, k.BLOCK_SIZE)
        loss == IF label_idx # IGNORE_INDEX
                THEN LgMinus(lse, CEF_TransformLabel(m.logits[row_idx][label_idx], k))
                ELSE LgZero
    IN  [loads  |-> {Loc("labels", row_idx, 0)}
                    \cup {Loc("logits", row_idx, c) : c \in UnmaskedCols(k, 0)}
                    \cup (IF label_idx # IGNORE_INDEX
                          THEN {Loc("logits", row_idx, label_idx)} ELSE {}),
         stores |-> {St("lse", row_idx, 0, lse), St("losses", row_idx, 0, loss)}]

\* Every chunk of a row storing the row's loss slot.
StoresLossEveryChunk(chunk_idx) == TRUE

\* Line 158: the chunk of a row that stores the row's loss slot.
StoresLoss(chunk_idx) == chunk_idx = 0

\* _chunked_cross_entropy_forward, the work unit of (row_idx, chunk_idx)
\* (lines 136-172).
ChunkedCrossEntropyForward(m, k, row_idx, chunk_idx) ==
    LET label_idx == m.labels[row_idx]
        col(i) == chunk_idx * k.BLOCK_SIZE + i
        lane == [i \in 0 .. (k.BLOCK_SIZE - 1) |->
                    CCEF_TransformLogits(MaskedLoad(m, k, row_idx, col(i)), k)]
        lse  == StableLogSumExp(lane, k.BLOCK_SIZE)
        loss == IF label_idx # IGNORE_INDEX
                THEN LgNeg(CCEF_TransformLabel(m.logits[row_idx][label_idx], k))
                ELSE LgZero
    IN  [loads  |-> {Loc("labels", row_idx, 0)}
                    \cup {Loc("logits", row_idx, c) : c \in UnmaskedCols(k, chunk_idx)}
                    \cup (IF StoresLoss(chunk_idx) /\ label_idx # IGNORE_INDEX
                          THEN {Loc("logits", row_idx, label_idx)} ELSE {}),
         stores |-> (IF StoresLoss(chunk_idx)
                     THEN {St("losses", row_idx, 0, loss)} ELSE {})
                    \cup {St("chunks", row_idx, chunk_idx, lse)}]

\* backward loading from a pristine copy of the logits instead of the buffer
\* it overwrites.
BackwardLoadPristine(m, k, row, col) ==
    IF col < k.VOCAB_SIZE THEN LogitAt(args.seed, row, col) ELSE NegInf

\* Line 222: the logits lane the backward kernel loads.
BackwardLoad(m, k, row, col) == MaskedLoad(m, k, row, col)

\* Lines 222-256 for one lane: the value stored at column col.
BackwardLane(m, k, row_idx, col, dloss) ==
    LET x0 == BackwardLoad(m, k, row_idx, col)
        x1 == IF k.DO_LOGIT_SCALING THEN FMul(x0, k.LOGIT_SCALE) ELSE x0
        partial == triton_tanh(FDiv(x1, k.SOFTCAP))
        x2 == IF k.DO_SOFTCAPPING THEN FMul(k.SOFTCAP, partial) ELSE x1
        y0 == ExpMinus(x2, m.lse[row_idx])
        y1 == IF col = m.labels[row_idx] THEN FSub(y0, One) ELSE y0
        y2 == IF k.DO_LOGIT_SCALING THEN FMul(y1, k.LOGIT_SCALE) ELSE y1
        y3 == IF k.DO_SOFTCAPPING
              THEN FMul(y2, FSub(One, FMul(partial, partial))) ELSE y2
    IN  FMul(dloss, y3)

\* _cross_entropy_backward, the work unit of (row_idx, block_idx)
\* (lines 208-256).
CrossEntropyBackward(m, k, row_idx, block_idx) ==
    LET label_idx == m.labels[row_idx]
        dloss == IF label_idx # IGNORE_INDEX THEN k.dlosses[row_idx] ELSE Zero
        cols  == UnmaskedCols(k, block_idx)
    IN  [loads  |-> {Loc("labels", row_idx, 0), Loc("lse", row_idx, 0)}
                    \cup (IF label_idx # IGNORE_INDEX
                          THEN {Loc("dloss", row_idx, 0)} ELSE {})
                    \cup {Loc("logits", row_idx, c) : c \in cols},
         stores |-> {St("logits", row_idx, c, BackwardLane(m, k, row_idx, c, dloss)) :
                        c \in cols}]


\* ------------------------------------------------------- kernel launches
\* A work unit is <<row, chunk or block>>.
ApplyStores(m, stores) ==
    LET val(kind, r, c, old) ==
            IF \E s \in stores : s.loc = Loc(kind, r, c)
            THEN (CHOOSE s \in stores : s.loc = Loc(kind, r, c)).val
            ELSE old
    IN  [logits |-> [r \in DOMAIN m.logits |->
                        [j \in DOMAIN m.logits[r] |-> val("logits", r, j, m.logits[r][j])]],
         losses |-> [r \in DOMAIN m.losses |-> val("losses", r, 0, m.losses[r])],
         chunks |-> [r \in DOMAIN m.chunks |->
                        [c \in DOMAIN m.chunks[r] |-> val("chunks", r, c, m.chunks[r][c])]],
         lse    |-> [r \in DOMAIN m.lse |-> val("lse", r, 0, m.lse[r])],
         labels |-> m.labels]

\* The work unit u of a kernel: its loads and stores on memory m.
Unit(kernel, m, k, u) ==
    CASE kernel = "forward" -> CrossEntropyForward(m, k, u[1])
      [] kernel = "chunked" -> ChunkedCrossEntropyForward(m, k, u[1], u[2])
      [] kernel = "backward" -> CrossEntropyBackward(m, k, u[1], u[2])

RunUnit(kernel, m, k, u) == ApplyStores(m, Unit(kernel, m, k, u).stores)

\* A whole launch, its units run one after the other.
RECURSIVE RunUnits(_, _, _, _)
RunUnits(kernel, m, k, units) ==
    IF units = {} THEN m
    ELSE LET u == CHOOSE u \in units : \A v \in units :
                        u[1] < v[1] \/ (u[1] = v[1] /\ u[2] <= v[2])
         IN  RunUnits(kernel, RunUnit(kernel, m, k, u), k, units \ {u})

\* ------------------------------------------------------- orchestrator
\* A ceiling that adds one chunk even when the division is exact.
NChunksPlusOne(vocab_size) == (vocab_size \div MAX_FUSED_SIZE) + 1

\* Lines 267-268: n_chunks = div + (mod != 0).
NChunks(vocab_size) ==
    (vocab_size \div MAX_FUSED_SIZE)
        + (IF vocab_size % MAX_FUSED_SIZE # 0 THEN 1 ELSE 0)

\* Lines 331-332: n_blocks = div + (mod != 0).
NBlocks(vocab_size) ==
    (vocab_size \div BACKWARD_BLOCK_SIZE)
        + (IF vocab_size % BACKWARD_BLOCK_SIZE # 0 THEN 1 ELSE 0)

\* calculate_settings (utils, not in the sources at hand): the block width of
\* the single-pass launch, the next power of two of the vocabulary width.
RECURSIVE NextPowerOfTwo(_, _)
NextPowerOfTwo(n, p) == IF p >= n THEN p ELSE NextPowerOfTwo(n, 2 * p)
calculate_settings(vocab_size) == NextPowerOfTwo(vocab_size, 1)

\* Lines 271-272 and the constexpr arguments of the forward launches.
ForwardK ==
    LET n_chunks == NChunks(args.vocab_size)
    IN  [VOCAB_SIZE       |-> args.vocab_size,
         N_CHUNKS         |-> n_chunks,
         BLOCK_SIZE       |-> IF n_chunks = 1 THEN calculate_settings(args.vocab_size)
                              ELSE MAX_FUSED_SIZE,
         DO_SOFTCAPPING   |-> (args.logit_softcapping # 0),
         SOFTCAP          |-> IntNum(args.logit_softcapping),
         DO_LOGIT_SCALING |-> (args.logit_scaling # 0),
         LOGIT_SCALE      |-> IntNum(args.logit_scaling),
         dlosses          |-> <<>>]

ForwardKernel == IF NChunks(args.vocab_size) = 1 THEN "forward" ELSE "chunked"
\* The grids (n_rows,) and (n_rows, n_chunks,) of lines 279 and 296.
ForwardUnits == {<<r, c>> : r \in Rows, c \in 0 .. (NChunks(args.vocab_size) - 1)}

\* The upstream gradient autograd hands to backward: dlosses of a direct
\* call, and d / n_items behind loss.sum() / n_items (line 376).
DLosses ==
    [r \in Rows |-> IF result.kind = "losses" THEN IntNum(args.dloss)
                    ELSE FDiv(IntNum(args.dloss), IntNum(result.n_items))]

\* Lines 327-345: the constexpr arguments of the backward launch.
BackwardK ==
    [VOCAB_SIZE       |-> args.vocab_size,
     N_CHUNKS         |-> NBlocks(args.vocab_size),
     BLOCK_SIZE       |-> BACKWARD_BLOCK_SIZE,
     DO_SOFTCAPPING   |-> ctx.DO_SOFTCAPPING,
     SOFTCAP          |-> IntNum(ctx.logit_softcapping),
     DO_LOGIT_SCALING |-> ctx.DO_LOGIT_SCALING,
     LOGIT_SCALE      |-> IntNum(ctx.logit_scaling),
     dlosses          |-> DLosses]

\* The grid (n_rows, n_blocks,) of line 334.
BackwardUnits == {<<r, b>> : r \in Rows, b \in 0 .. (NBlocks(args.vocab_size) - 1)}

\* torch.logsumexp(logsumexp, dim = 1) of one row (line 312).
RECURSIVE ChunkMax(_, _)
ChunkMax(row, n) ==
    IF n = 1 THEN row[0].lg ELSE FMax(ChunkMax(row, n - 1), row[n - 1].lg)
RECURSIVE ChunkSum(_, _, _)
ChunkSum(row, mx, n) ==
    IF n = 0 THEN Zero ELSE FAdd(ChunkSum(row, mx, n - 1), FDiv(row[n - 1].lg, mx))
TorchLogSumExp(row, n) ==
    LET mx == ChunkMax(row, n)
    IN  [lg |-> FMul(mx, ChunkSum(row, mx, n))]

\* labels == -100 broadcasts against losses (line 314) when the two lengths
\* agree or labels holds one element; otherwise masked_fill_ raises.
MaskBroadcasts == NLabels = NRows \/ NLabels = 1
MaskAt(m, r) == m.labels[IF NLabels = 1 THEN 0 ELSE r] = IGNORE_INDEX

\* Lines 312-314: the chunk reducer.
ChunkReducer(m) ==
    LET n   == NChunks(args.vocab_size)
        lse == [r \in Rows |-> TorchLogSumExp(m.chunks[r], n)]
    IN  [m EXCEPT !.lse = lse,
                  !.losses = [r \in Rows |->
                                IF MaskBroadcasts /\ MaskAt(m, r) THEN LgZero
                                ELSE LgAdd(m.losses[r], lse[r])]]

\* Lines 317-321.
SavedCtx ==
    [saved             |-> TRUE,
     DO_SOFTCAPPING    |-> (args.logit_softcapping # 0),
     logit_softcapping |-> args.logit_softcapping,
     DO_LOGIT_SCALING  |-> (args.logit_scaling # 0),
     logit_scaling     |-> args.logit_scaling]

NoCtx ==
    [saved |-> FALSE, DO_SOFTCAPPING |-> FALSE, logit_softcapping |-> 0,
     DO_LOGIT_SCALING |-> FALSE, logit_scaling |-> 0]

\* Fast_CrossEntropyLoss.forward (lines 264-322) on memory m: the memory it
\* leaves and whether it raised.
ForwardCall(m) ==
    LET m1 == RunUnits(ForwardKernel, m, ForwardK, ForwardUnits)
    IN  IF NChunks(args.vocab_size) = 1 THEN [mem |-> m1, raised |-> FALSE]
        ELSE [mem |-> ChunkReducer(m1), raised |-> ~MaskBroadcasts]

SetMem(m) ==
    /\ logits' = m.logits
    /\ losses' = m.losses
    /\ chunk_lse' = m.chunks
    /\ logsumexp' = m.lse

\* loss.sum() over the rows (line 376), a log-domain value.
RECURSIVE LossSum(_, _)
LossSum(ls, n) == IF n = 0 THEN LgZero ELSE LgAdd(LossSum(ls, n - 1), ls[n - 1])

\* torch.count_nonzero(labels != -100) (line 375).
NItems == Cardinality({r \in 0 .. (NLabels - 1) : labels[r] # IGNORE_INDEX})

\* loss.sum() / n_items (line 376): a scalar, or the NaN / Inf of a division
\* by a zero count.
Quotient(sum, n_items) ==
    [kind    |-> IF sum.lg = NaN THEN "nan"
                 ELSE IF n_items = 0 THEN (IF sum = LgZero THEN "nan" ELSE "inf")
                 ELSE "scalar",
     sum     |-> sum,
     n_items |-> n_items]

NoResult == [kind |-> "none", sum |-> LgEmpty, n_items |-> 0]
Raised   == [kind |-> "error", sum |-> LgEmpty, n_items |-> 0]
Losses   == [kind |-> "losses", sum |-> LgEmpty, n_items |-> 0]

\* ------------------------------------------------------------- Init
Shapes == {<<1, n>> : n \in 1 .. MaxRows}

Init ==
    /\ \E ls \in Shapes, lb \in Shapes, v \in 1 .. MaxVocab :
       \E seed \in {0, v - 1}, sc \in SoftcapVals, sl \in ScaleVals, d \in DLossVals :
          args = [logits_shape |-> ls, labels_shape |-> lb, vocab_size |-> v,
                  seed |-> seed, logit_softcapping |-> sc, logit_scaling |-> sl,
                  dloss |-> d]
    /\ LET M == IF NRows > NLabels THEN NRows ELSE NLabels
       IN  \E ignored \in SUBSET (0 .. (M - 1)) :
              labels = [r \in 0 .. (M - 1) |->
                          IF r \in ignored THEN IGNORE_INDEX
                          ELSE LabelAt(args.seed, r, args.vocab_size)]
    /\ logits = OrigLogits
    /\ losses = [r \in Rows |-> LgEmpty]
    /\ chunk_lse = [r \in Rows |-> [c \in 0 .. (NChunks(args.vocab_size) - 1) |-> LgEmpty]]
    /\ logsumexp = [r \in Rows |-> LgEmpty]
    /\ ctx = NoCtx
    /\ pc = "idle"
    /\ result = NoResult
    /\ pending = {}
    /\ n_backward = 0


\* --------------------------------------------------- the calls, whole
\* Fast_CrossEntropyLoss.apply(logits, labels, softcap, scale), called
\* directly (lines 264-322).
Forward ==
    /\ pc = "idle"
    /\ LET f == ForwardCall(Mem)
       IN  /\ SetMem(f.mem)
           /\ pc' = IF f.raised THEN "error" ELSE "saved"
           /\ ctx' = IF f.raised THEN ctx ELSE SavedCtx
           /\ result' = IF f.raised THEN Raised ELSE Losses
    /\ UNCHANGED <<args, labels, pending, n_backward>>

\* fast_cross_entropy_loss (lines 353-376).
FastCrossEntropyLoss ==
    /\ pc = "idle"
    /\ IF args.labels_shape # args.logits_shape
       THEN /\ pc' = "error"
            /\ result' = Raised
            /\ UNCHANGED <<logits, losses, chunk_lse, logsumexp, ctx>>
       ELSE LET f == ForwardCall(Mem)
            IN  /\ SetMem(f.mem)
                /\ pc' = IF f.raised THEN "error" ELSE "saved"
                /\ ctx' = IF f.raised THEN ctx ELSE SavedCtx
                /\ result' = IF f.raised THEN Raised
                             ELSE Quotient(LossSum(f.mem.losses, NRows), NItems)
    /\ UNCHANGED <<args, labels, pending, n_backward>>

\* Line 327: backward needs what forward saved, and nothing else: ctx holds
\* no marker of a backward already made.
BackwardReady == pc = "saved" /\ ctx.saved

\* Fast_CrossEntropyLoss.backward (lines 326-347).
Backward ==
    /\ BackwardReady
    /\ n_backward < MaxBackward
    /\ SetMem(RunUnits("backward", Mem, BackwardK, BackwardUnits))
    /\ n_backward' = n_backward + 1
    /\ UNCHANGED <<args, labels, ctx, pc, result, pending>>

Next == Forward \/ FastCrossEntropyLoss \/ Backward

Spec == Init /\ [][Next]_vars

\* ----------------------------------------- the launches, unit by unit
\* The direct forward call up to its kernel launch (lines 265-309).
LaunchForward ==
    /\ pc = "idle"
    /\ pc' = "forward"
    /\ pending' = ForwardUnits
    /\ UNCHANGED <<args, labels, logits, losses, chunk_lse, logsumexp, ctx, result,
                   n_backward>>

\* One work unit of the forward launch in flight.
RunForwardUnit ==
    /\ pc = "forward"
    /\ \E u \in pending :
          /\ SetMem(RunUnit(ForwardKernel, Mem, ForwardK, u))
          /\ pending' = pending \ {u}
    /\ UNCHANGED <<args, labels, ctx, pc, result, n_backward>>

\* The reducer not waiting for the launch.
ReducerReadyNoBarrier == TRUE

\* Lines 312-322 follow the launch on the same stream: they run once every
\* unit of the launch has completed.
ReducerReady == pending = {}

\* The rest of forward after the launch (lines 310-322).
FinishForward ==
    /\ pc = "forward"
    /\ ReducerReady
    /\ LET raised == NChunks(args.vocab_size) # 1 /\ ~MaskBroadcasts
       IN  /\ SetMem(IF NChunks(args.vocab_size) = 1 THEN Mem ELSE ChunkReducer(Mem))
           /\ pc' = IF raised THEN "error" ELSE "saved"
           /\ ctx' = IF raised THEN ctx ELSE SavedCtx
           /\ result' = IF raised THEN Raised ELSE Losses
    /\ pending' = {}
    /\ UNCHANGED <<args, labels, n_backward>>

\* backward up to its kernel launch (lines 327-346).
LaunchBackward ==
    /\ BackwardReady
    /\ n_backward = 0
    /\ pc' = "backward"
    /\ pending' = BackwardUnits
    /\ n_backward' = n_backward + 1
    /\ UNCHANGED <<args, labels, logits, losses, chunk_lse, logsumexp, ctx, result>>

\* One work unit of the backward launch in flight.
RunBackwardUnit ==
    /\ pc = "backward"
    /\ \E u \in pending :
          /\ SetMem(RunUnit("backward", Mem, BackwardK, u))
          /\ pending' = pending \ {u}
    /\ UNCHANGED <<args, labels, ctx, pc, result, n_backward>>

\* backward returns once the launch has completed (line 347).
FinishBackward ==
    /\ pc = "backward"
    /\ pending = {}
    /\ pc' = "saved"
    /\ UNCHANGED <<args, labels, logits, losses, chunk_lse, logsumexp, ctx, result,
                   pending, n_backward>>

InitUnits ==
    /\ Init
    /\ args.labels_shape = args.logits_shape
    /\ args.dloss = 1
    /\ args.logit_softcapping = args.logit_scaling

NextUnits ==
    \/ LaunchForward \/ RunForwardUnit \/ FinishForward
    \/ LaunchBackward \/ RunBackwardUnit \/ FinishBackward

SpecUnits == InitUnits /\ [][NextUnits]_vars


\* =================================================================
\* The specification's statements, written independently of the kernels.
\* =================================================================

\* The memory forward starts from: the caller's logits, torch.empty outputs.
Mem0 ==
    [logits |-> OrigLogits,
     losses |-> [r \in Rows |-> LgEmpty],
     chunks |-> [r \in Rows |-> [c \in 0 .. (NChunks(args.vocab_size) - 1) |-> LgEmpty]],
     lse    |-> [r \in Rows |-> LgEmpty],
     labels |-> labels]

\* Section 4.2: scale first, softcap applied to the scaled value.
RefScaled(x) ==
    IF args.logit_scaling # 0 THEN FMul(IntNum(args.logit_scaling), x) ELSE x
RefTanh(x) == triton_tanh(FDiv(RefScaled(x), IntNum(args.logit_softcapping)))
RefTransform(x) ==
    IF args.logit_softcapping # 0
    THEN FMul(IntNum(args.logit_softcapping), RefTanh(x)) ELSE RefScaled(x)

\* Section 4.1: the log-sum-exp of a row over its valid columns only.
RECURSIVE RowExpSum(_, _)
RowExpSum(r, n) ==
    IF n = 0 THEN Zero
    ELSE FAdd(RowExpSum(r, n - 1), Exp2(RefTransform(OrigLogits[r][n - 1])))
RowLogSumExp(r) == Log2(RowExpSum(r, args.vocab_size))

ValidConfig == args.logit_softcapping >= 0 /\ args.logit_scaling >= 0
ShapesAgree == args.labels_shape = args.logits_shape
NothingWritten ==
    /\ \A r \in Rows : losses[r] = LgEmpty /\ logsumexp[r] = LgEmpty
    /\ \A r \in Rows : \A c \in DOMAIN chunk_lse[r] : chunk_lse[r][c] = LgEmpty
    /\ ~ctx.saved

\* C1: a row whose label is the ignore sentinel has loss exactly 0 after
\* forward, and after backward every column of the row holds exactly 0,
\* whichever path forward took and whatever the upstream gradient is.
C1_IgnoredRowsZero ==
    \A r \in Rows :
        (r < NLabels /\ labels[r] = IGNORE_INDEX) =>
            /\ pc = "saved" => losses[r] = LgZero
            /\ n_backward >= 1 => \A j \in Cols : logits[r][j] = Zero

\* C2: after a chunked forward under a valid configuration, the saved
\* row-level log-sum-exp is the log of the sum of the exponentials over the
\* row, and the loss of a row is that value minus the transformed label logit,
\* as the single-pass computation of the same row gives.
C2_ChunkedEqualsSinglePass ==
    (pc = "saved" /\ n_backward = 0 /\ NChunks(args.vocab_size) # 1
        /\ ValidConfig /\ ShapesAgree) =>
        \A r \in Rows :
            /\ logsumexp[r] = RowLogSumExp(r)
            /\ losses[r] = IF labels[r] = IGNORE_INDEX THEN LgZero
                           ELSE LgMinus(RowLogSumExp(r),
                                        RefTransform(OrigLogits[r][labels[r]]))

\* C3: forward launches ceil(vocab_size / MAX_FUSED_SIZE) chunk units per row;
\* every column below vocab_size is unmasked in exactly one chunk, the chunk
\* col div capacity; every chunk but the last has the full width, none is
\* empty, and no unmasked column is >= vocab_size.  The same holds of the
\* backward tiling with its own block width.
TilingOk(k, n, width) ==
    /\ n * width >= k.VOCAB_SIZE
    /\ (n - 1) * width < k.VOCAB_SIZE
    /\ \A j \in 0 .. (k.VOCAB_SIZE - 1) :
          {c \in 0 .. (n - 1) : j \in UnmaskedCols(k, c)} = {j \div width}
    /\ \A c \in 0 .. (n - 1) :
          /\ UnmaskedCols(k, c) # {}
          /\ UnmaskedCols(k, c) \subseteq 0 .. (k.VOCAB_SIZE - 1)
          /\ c < n - 1 => Cardinality(UnmaskedCols(k, c)) = width
C3_TilingPartition ==
    /\ TilingOk(ForwardK, NChunks(args.vocab_size), MAX_FUSED_SIZE)
    /\ ForwardUnits = Rows \X (0 .. (NChunks(args.vocab_size) - 1))
    /\ ctx.saved =>
          /\ TilingOk(BackwardK, NBlocks(args.vocab_size), BACKWARD_BLOCK_SIZE)
          /\ BackwardUnits = Rows \X (0 .. (NBlocks(args.vocab_size) - 1))
C3_Witness ==
    /\ pc = "saved" /\ n_backward = 1
    /\ NChunks(args.vocab_size) = 2
    /\ args.vocab_size % MAX_FUSED_SIZE # 0
    /\ args.vocab_size % BACKWARD_BLOCK_SIZE # 0

\* C4: when every label of the batch is the ignore sentinel, a call of
\* fast_cross_entropy_loss ends in an error; it never returns the quotient
\* of the loss sum by a zero count.
C4_AllIgnoredIsError ==
    (pc # "idle" /\ result.kind # "losses" /\ ShapesAgree /\ NItems = 0) =>
        result.kind = "error"

\* C5: a call whose labels shape differs from the logits shape is rejected
\* before any forward kernel is launched: no loss slot and no log-sum-exp
\* slot has been written and nothing has been saved for backward.
C5_ShapeMismatchRejected ==
    (pc # "idle" /\ ~ShapesAgree) => (pc = "error" /\ NothingWritten)

\* C6: a call with a negative softcap or scale is rejected at entry, before
\* any kernel launch, and a negative value never enables a transform.
C6_NegativeConfigRejected ==
    (pc # "idle" /\ ~ValidConfig /\ ShapesAgree) =>
        /\ pc = "error"
        /\ \A r \in Rows : losses[r] = LgEmpty /\ logsumexp[r] = LgEmpty
        /\ ctx.DO_SOFTCAPPING => args.logit_softcapping > 0
        /\ ctx.DO_LOGIT_SCALING => args.logit_scaling > 0

\* Section 4.5 on a buffer buf: softmax entry from the transformed value and
\* the saved log-sum-exp, minus 1 at the label column, then times the scale,
\* times (1 - tanh^2), times dloss.
RefGradCell(buf, r, j) ==
    LET x  == buf[r][j]
        y  == ExpMinus(RefTransform(x), logsumexp[r])
        y1 == IF j = labels[r] THEN FSub(y, One) ELSE y
        y2 == IF args.logit_scaling # 0
              THEN FMul(y1, IntNum(args.logit_scaling)) ELSE y1
        y3 == IF args.logit_softcapping # 0
              THEN FMul(y2, FSub(One, FMul(RefTanh(x), RefTanh(x)))) ELSE y2
        dl == IF labels[r] = IGNORE_INDEX THEN Zero ELSE DLosses[r]
    IN  FMul(y3, dl)
RefGrad(buf) == [r \in Rows |-> [j \in Cols |-> RefGradCell(buf, r, j)]]
RECURSIVE RefGradIter(_)
RefGradIter(n) ==
    IF n = 0 THEN OrigLogits
    ELSE LET prev == RefGradIter(n - 1) IN RefGrad(prev)

\* C7: backward keeps no consumed marker.  After the first backward the
\* logits buffer holds the gradient; a further backward on the same saved
\* state is enabled, is not rejected, leaves the saved log-sum-exp as forward
\* stored it, and computes its output from the buffer as it then stands:
\* after n backwards the buffer is the n-fold image of the original logits.
C7_BackwardReadsOverwrittenBuffer ==
    n_backward >= 1 =>
        /\ BackwardReady
        /\ logsumexp = ForwardCall(Mem0).mem.lse
        /\ logits = RefGradIter(n_backward)
C7_Witness ==
    /\ n_backward = 2
    /\ \E r \in Rows : \E j \in Cols :
          /\ IsRat(logits[r][j])
          /\ IsRat(RefGradIter(1)[r][j])
          /\ logits[r][j] # RefGradIter(1)[r][j]

\* C8: in the chunked path the reducer runs only once every (row, chunk) unit
\* has stored its log-sum-exp slot and chunk 0 of every row its loss slot:
\* whatever the order of the units, every slot the reducer read had been
\* written, and the losses and the saved log-sum-exp are those of the launch
\* run in a fixed order.
C8_ReducerAfterAllUnits ==
    (NChunks(args.vocab_size) # 1 /\ pc \in {"saved", "error"}) =>
        LET f == ForwardCall(Mem0).mem
        IN  /\ \A r \in Rows : \A c \in DOMAIN chunk_lse[r] : chunk_lse[r][c] # LgEmpty
            /\ \A r \in Rows : losses[r].lg # Empty /\ logsumexp[r].lg # Empty
            /\ losses = f.losses
            /\ logsumexp = f.lse
C8_Witness ==
    /\ pc = "saved" /\ n_backward = 0
    /\ NChunks(args.vocab_size) = 2 /\ NRows = 2
    /\ labels[0] = IGNORE_INDEX /\ labels[1] # IGNORE_INDEX

\* The launch in flight: its kernel, its constexpr arguments, its grid.
InFlight == pc \in {"forward", "backward"}
FlightKernel == IF pc = "forward" THEN ForwardKernel ELSE "backward"
FlightK      == IF pc = "forward" THEN ForwardK ELSE BackwardK
FlightUnits  == IF pc = "forward" THEN ForwardUnits ELSE BackwardUnits

\* C9: within a launch no location written by one work unit is written or
\* read by another: a loss slot, a log-sum-exp slot and a logits cell each
\* have one unit that touches them (at the launch every unit of the grid is
\* pending, so every pair of units of the launch is compared), and whatever
\* order the units ran in, the memory after the launch is the memory that
\* the launch run in one fixed order leaves.
C9_UnitsDisjoint ==
    /\ InFlight =>
          LET U == [u \in pending |-> Unit(FlightKernel, Mem, FlightK, u)]
              W == [u \in pending |-> {s.loc : s \in U[u].stores}]
          IN  \A u \in pending : \A v \in pending \ {u} :
                  W[u] \cap (W[v] \cup U[v].loads) = {}
    /\ pc = "saved" =>
          LET f == ForwardCall(Mem0).mem
          IN  Mem = IF n_backward = 0 THEN f
                    ELSE RunUnits("backward", f, BackwardK, BackwardUnits)
C9_Witness ==
    /\ pc = "backward" /\ NRows = 2
    /\ pending # {} /\ pending # BackwardUnits
    /\ \E u \in pending : \E v \in BackwardUnits \ pending : u[1] = v[1]

\* The forward results with the transform of section 4.2 at every lane.
RefChunkLse(r, c) ==
    StableLogSumExp([i \in 0 .. (ForwardK.BLOCK_SIZE - 1) |->
                        RefTransform(MaskedLoad(Mem0, ForwardK, r,
                                                c * ForwardK.BLOCK_SIZE + i))],
                    ForwardK.BLOCK_SIZE)
RefLse(r) ==
    IF NChunks(args.vocab_size) = 1 THEN RefChunkLse(r, 0)
    ELSE TorchLogSumExp([c \in 0 .. (NChunks(args.vocab_size) - 1) |-> RefChunkLse(r, c)],
                        NChunks(args.vocab_size))
RefLoss(r) ==
    IF labels[r] = IGNORE_INDEX THEN LgZero
    ELSE LgMinus(RefLse(r), RefTransform(OrigLogits[r][labels[r]]))

\* C10: whatever the two flags, the same transform, scale first and softcap
\* on the scaled value, is applied to every logit that enters the
\* log-sum-exp and to the re-loaded label logit, in the single-pass and in
\* the chunked kernel, and to the logits in backward before the softmax entry
\* is formed; in backward the label column's minus 1 comes before the
\* multiplications by the scale, by 1 - tanh^2 and by dloss.
C10_SameTransformEverySite ==
    (pc = "saved" /\ ShapesAgree /\ n_backward <= 1) =>
        /\ \A r \in Rows : logsumexp[r] = RefLse(r) /\ losses[r] = RefLoss(r)
        /\ n_backward = 1 => logits = RefGrad(OrigLogits)
C10_Witness ==
    /\ pc = "saved" /\ n_backward = 1 /\ ShapesAgree
    /\ args.logit_softcapping = 2 /\ args.logit_scaling = 2
    /\ \E r \in Rows :
          /\ labels[r] # IGNORE_INDEX
          /\ IsRat(logits[r][labels[r]]) /\ logits[r][labels[r]] # Zero

=============================================================================
